---- MODULE Spec2Model ----
(***************************************************************************)
(* A model of src/src/pstream.c: one struct pstream bound to one iochannel *)
(* and one mainloop source.  The write engine (do_write) drains            *)
(* send_queue onto the channel, the read engine (do_read) parses frames    *)
(* from it.  Bytes are 0..255.  A uint32_t word is kept as the signed      *)
(* reading of its 32 bits (TLC integers are 32 bits wide), so an unsigned  *)
(* comparison is spelled out where the code makes one.  The host is taken  *)
(* little-endian: the code copies the descriptor words as raw memory.      *)
(***************************************************************************)
EXTENDS Integers, Sequences, FiniteSets, TLC

\* ------------------------------------------------------------ constants

PSTREAM_DESCRIPTOR_LENGTH == 0
PSTREAM_DESCRIPTOR_CHANNEL == 1
PSTREAM_DESCRIPTOR_DELTA == 2
PSTREAM_DESCRIPTOR_MAX == 3
PSTREAM_DESCRIPTOR_SIZE == PSTREAM_DESCRIPTOR_MAX * 4
FRAME_SIZE_MAX == 1024 * 64

\* size_t arithmetic wraps.  The wrapped value is only ever compared with 0
\* and with what a channel transfers in one call, so the modulus stands in
\* for 2^64 (2^32 on an ILP32 build) at the largest power of two TLC holds.
SIZE_T_MODULUS == 2^30

\* ------------------------------------------------------------ bounds

\* the most frames a behaviour carries: items the client enqueues plus
\* frames the peer writes
MaxFrames == 2
\* the most bytes a channel call transfers
MaxChunk == 5
\* the most wake-ups the scenario's driver makes
MaxCalls == 12

\* what an out-of-bounds read of a payload buffer can yield
GarbageBytes == {0, 170}
\* packet->length of the packets the client sends
PacketLengths == {0, 25}
\* the same for what is sent over the loopback channel
PipePacketLengths == {1}
PipeMemblockSends == { <<2, -5, 1, 2, 4>> }
\* (channel, delta, chunk.index, chunk.length, memblock length) of the chunks sent
MemblockSends == { <<1, 0, 0, 1, 1>>, <<2, -5, 1, 2, 4>> }

\* ------------------------------------------------------------ helpers

Min(a, b) == IF a < b THEN a ELSE b

Take(s, n) == SubSeq(s, 1, Min(n, Len(s)))

Drop(s, n) == SubSeq(s, Min(n, Len(s)) + 1, Len(s))

\* size_t result of an expression computed in size_t
SizeT(n) == n % SIZE_T_MODULUS

\* the four bytes of a uint32_t in memory (little-endian host); w is the
\* signed reading of the word, floor division gives two's complement
Encode32(w) ==
    << w % 256, (w \div 256) % 256, (w \div 65536) % 256, (w \div 16777216) % 256 >>

\* the word four bytes of memory hold, as the signed reading of its bits
Decode32(b) ==
    b[1] + 256 * b[2] + 65536 * b[3]
         + 16777216 * (IF b[4] >= 128 THEN b[4] - 256 ELSE b[4])

\* a > n for a uint32_t a (signed reading) and a small constant n >= 0
U32Greater(a, n) == a < 0 \/ a > n

\* pstream_descriptor as the 12 bytes do_write transmits
DescriptorBytes(d) ==
    Encode32(d[PSTREAM_DESCRIPTOR_LENGTH]) \o Encode32(d[PSTREAM_DESCRIPTOR_CHANNEL])
        \o Encode32(d[PSTREAM_DESCRIPTOR_DELTA])

\* word k of a received descriptor
DescriptorWord(bytes, k) == Decode32(SubSeq(bytes, 4 * k + 1, 4 * k + 4))

\* ------------------------------------------------------------ buffers

\* A buffer reference: struct packet * or struct memblock *.  kind "uninit"
\* is a pointer field malloc left unset.  id > 0: a buffer of the client,
\* id < 0: a buffer do_read allocated.
Ref(kind, id, length) == [kind |-> kind, id |-> id, length |-> length]

UNINIT == Ref("uninit", 0, 0)

\* byte j (from 0) of client buffer id
PayloadByte(id, j) == (16 * id + j + 1) % 256

\* byte at offset j of the buffer ref points to; past its end the read is
\* out of bounds and yields the garbage byte g
BufferByte(ref, j, g) == IF j >= 0 /\ j < ref.length THEN PayloadByte(ref.id, j) ELSE g

RECURSIVE BufferBytes(_, _, _, _)
BufferBytes(ref, from, n, g) ==
    IF n <= 0 THEN << >>
    ELSE << BufferByte(ref, from, g) >> \o BufferBytes(ref, from + 1, n - 1, g)

\* struct memchunk
Chunk(memblock, index, length) == [memblock |-> memblock, index |-> index, length |-> length]

\* struct item_info.  A field the constructor does not set keeps what malloc
\* left there: UNINIT for a pointer, and a number nothing reads.
PacketItem(packet) ==
    [type |-> "PSTREAM_ITEM_PACKET", chunk |-> Chunk(UNINIT, 0, 0),
     channel |-> 0, delta |-> 0, packet |-> packet]

MemblockItem(channel, delta, chunk) ==
    [type |-> "PSTREAM_ITEM_MEMBLOCK", chunk |-> chunk,
     channel |-> channel, delta |-> delta, packet |-> UNINIT]

\* the payload reference an item was built around
ItemPayload(i) == IF i.type = "PSTREAM_ITEM_PACKET" THEN i.packet ELSE i.chunk.memblock

\* the position of an item in the order of enqueueing
ItemId(i) == ItemPayload(i).id

\* the payload length of the frame an item stands for
ItemLength(i) == IF i.type = "PSTREAM_ITEM_PACKET" THEN i.packet.length ELSE i.chunk.length

\* the bytes of that frame, descriptor and payload
FrameSize(i) == PSTREAM_DESCRIPTOR_SIZE + ItemLength(i)

\* ------------------------------------------------------------ state

VARIABLES
    p,               \* struct pstream
    source_enabled,  \* whether p->mainloop_source is enabled
    io,              \* p->io: kind = "socket", "loopback" or "mock",
                     \*        in = the bytes do_read has yet to read,
                     \*        log = a mock's record of the calls made to it
    status,          \* "live", "aborted" (the process died) or "freed" (after pstream_free)
    pc,              \* position in io_callback / prepare_callback: "idle" or "do_read"
    calls,           \* wake-ups the scenario's driver has made (0 outside the scenario)
    obs              \* instrumentation: what a test harness around the stream records

vars == << p, source_enabled, io, status, pc, calls, obs >>

\* the state as one value, for the operators that model the C functions
World == [p |-> p, source_enabled |-> source_enabled, io |-> io, status |-> status, obs |-> obs]

\* obs.last when an engine returns without calling the channel
NoIo(engine) == [engine |-> engine, called |-> FALSE, sign |-> 0]

\* obs.last when an engine called the channel and got r
DidIo(engine, r) ==
    [engine |-> engine, called |-> TRUE, sign |-> IF r < 0 THEN -1 ELSE IF r = 0 THEN 0 ELSE 1]

\* a mock channel keeps a log of the calls made to it and of the bytes
\* handed over; the other channels keep none
MockLog(channel, op, l, r, bytes) ==
    IF channel.kind = "mock"
    THEN Append(channel.log, [op |-> op, l |-> l, r |-> r, bytes |-> bytes])
    ELSE channel.log

\* what is written to a socket goes to the peer; on a loopback channel it
\* is what is read next
Loopback(channel, bytes) ==
    IF channel.kind = "loopback" THEN channel.in \o bytes ELSE channel.in

\* the struct pstream_new returns; what malloc left in the fields it does
\* not set is never read before it is assigned
NewStream ==
    [ dead |-> FALSE,
      send_queue |-> << >>,
      write |-> [ current |-> << >>,
                  descriptor |-> [k \in 0 .. PSTREAM_DESCRIPTOR_MAX - 1 |-> 0],
                  data |-> [ref |-> UNINIT, base |-> 0],
                  index |-> 0 ],
      send_callback |-> FALSE,
      read |-> [ memblock |-> << >>,
                 packet |-> << >>,
                 descriptor |-> [k \in 1 .. PSTREAM_DESCRIPTOR_SIZE |-> 0],
                 data |-> [ref |-> UNINIT, bytes |-> << >>],
                 index |-> 0 ],
      recieve_packet_callback |-> FALSE,
      recieve_memblock_callback |-> FALSE ]

\* freed memory: no field of it means anything any more
NoStream == NewStream

\* a channel of the given kind with nothing in flight
NewChannel(kind) == [kind |-> kind, in |-> << >>, log |-> << >>]

\* a channel after iochannel_free; a mock keeps its log
NoChannel(channel) == [NewChannel(channel.kind) EXCEPT !.log = channel.log]

\* what the harness has recorded when the stream is created
NewObs ==
    [ sent |-> << >>,        \* every item enqueued, in order
      emitted |-> << >>,     \* bytes of each one's frame put on the channel
      completed |-> 0,       \* items do_write finished (line 263 reached)
      send_callbacks |-> 0,  \* invocations of send_callback
      recieved |-> << >>,    \* what the receive callbacks were handed
      unrefs |-> << >>,      \* every reference packet_unref / memblock_unref was applied to
      allocs |-> 0,          \* buffers do_read allocated
      peer_frames |-> 0,     \* frames the peer wrote
      last |-> NoIo("none") ]

\* pstream_new
Init ==
    /\ p = NewStream
    /\ source_enabled = FALSE
    /\ io = NewChannel("socket")
    /\ status = "live"
    /\ pc = "idle"
    /\ calls = 0
    /\ obs = NewObs

\* ------------------------------------------------------------ queue.h

queue_push(q, i) == Append(q, i)

queue_pop(q) == [item |-> << Head(q) >>, rest |-> Tail(q)]

queue_is_empty(q) == q = << >>

\* ------------------------------------------------------------ iochannel

\* iochannel_write(io, d, l): cap < 0 is an error, otherwise the channel
\* takes at most cap bytes of the l offered
iochannel_write(cap, l) == IF cap < 0 THEN -1 ELSE Min(cap, l)

\* iochannel_read(io, d, l): n < 0 is an error, n = 0 end of stream, otherwise
\* the channel hands over at most n of the bytes it holds, at most l
iochannel_read(n, l, avail) == IF n <= 0 THEN n ELSE Min(n, Min(l, avail))

\* ------------------------------------------------------------ sending

\* queue_push + mainloop_source_enable(1), with the harness's record
enqueue(W, i) ==
    [W EXCEPT !.p.send_queue = queue_push(@, i),
              !.source_enabled = TRUE,
              !.obs.sent = Append(@, i),
              !.obs.emitted = Append(@, 0)]

pstream_send_packet(W, packet) == enqueue(W, PacketItem(packet))

pstream_send_memblock(W, channel, delta, chunk) == enqueue(W, MemblockItem(channel, delta, chunk))

\* whether the bounds leave room for one more frame
Room(W) == Len(W.obs.sent) + W.obs.peer_frames < MaxFrames

\* a fresh client packet of the given length
NewPacket(W, length) == Ref("packet", Len(W.obs.sent) + 1, length)

\* a fresh client memblock of the given length
NewMemblock(W, length) == Ref("memblock", Len(W.obs.sent) + 1, length)

\* what a user callback does with the stream while it runs: nothing, or
\* pstream_send_packet of a fresh one-byte packet
user_callback(W, sends) ==
    IF sends /\ Room(W) THEN pstream_send_packet(W, NewPacket(W, 1)) ELSE W

\* ------------------------------------------------------------ item_free

\* the pointer item_free hands to memblock_unref / packet_unref
item_free_target(i) ==
    IF i.type = "PSTREAM_ITEM_PACKET" THEN i.chunk.memblock ELSE i.packet

\* item_free on the items of s, in order.  Reading a pointer malloc left
\* unset is undefined: under ub = "abort" the assert on it (or the unref)
\* ends the process, under ub = "wild" the unref lands on memory the item
\* does not own and the program goes on.
RECURSIVE item_free_all(_, _, _)
item_free_all(W, s, ub) ==
    IF s = << >> \/ W.status # "live" THEN W
    ELSE LET t == item_free_target(Head(s)) IN
         IF t.kind = "uninit" /\ ub = "abort"
         THEN [W EXCEPT !.status = "aborted"]
         ELSE item_free_all([W EXCEPT !.obs.unrefs = Append(@, t)], Tail(s), ub)

item_free(W, i, ub) == item_free_all(W, << i >>, ub)

\* ------------------------------------------------------------ write engine

\* prepare_next_write_item: the write cursor and the queue after it
prepare_next_write_item(w, q) ==
    IF queue_is_empty(q) THEN [write |-> [w EXCEPT !.current = << >>], queue |-> q]
    ELSE LET popped == queue_pop(q)
             i == popped.item[1]
         IN [ queue |-> popped.rest,
              write |->
                IF i.type = "PSTREAM_ITEM_PACKET"
                THEN [ current |-> popped.item,
                       index |-> 0,
                       data |-> [ref |-> i.packet, base |-> 0],
                       descriptor |->
                         [k \in 0 .. PSTREAM_DESCRIPTOR_MAX - 1 |->
                            IF k = PSTREAM_DESCRIPTOR_LENGTH THEN i.packet.length ELSE 0] ]
                ELSE [ current |-> popped.item,
                       index |-> 0,
                       data |-> [ref |-> i.chunk.memblock, base |-> i.chunk.index],
                       descriptor |->
                         [k \in 0 .. PSTREAM_DESCRIPTOR_MAX - 1 |->
                            IF k = PSTREAM_DESCRIPTOR_LENGTH THEN i.chunk.length
                            ELSE IF k = PSTREAM_DESCRIPTOR_CHANNEL THEN i.channel
                            ELSE i.delta] ] ]

\* an engine that looks at the channel only
engine_ignores_dead(dead, ready) == ~ready

\* the guard both engines open with: p->dead || !iochannel_is_...able(p->io)
engine_blocked(dead, ready) == dead \/ ~ready

\* a do_write that takes an item off the queue at every invocation
wants_next_item_always(w) == TRUE

\* whether do_write takes the next item off the queue: !p->write.current
wants_next_item(w) == w.current = << >>

\* l of do_write: the length of the span offered to the channel
write_span(w) ==
    IF w.index < PSTREAM_DESCRIPTOR_SIZE
    THEN PSTREAM_DESCRIPTOR_SIZE - w.index
    ELSE SizeT(w.descriptor[PSTREAM_DESCRIPTOR_LENGTH] - w.index - PSTREAM_DESCRIPTOR_SIZE)

\* the first r bytes at d of do_write
write_bytes(w, r, g) ==
    IF w.index < PSTREAM_DESCRIPTOR_SIZE
    THEN SubSeq(DescriptorBytes(w.descriptor), w.index + 1, w.index + r)
    ELSE BufferBytes(w.data.ref, w.data.base + w.index - PSTREAM_DESCRIPTOR_SIZE, r, g)

\* (r = iochannel_write(...)) < 0
write_failed(r) == r < 0

\* p->write.index >= PSTREAM_DESCRIPTOR_SIZE + p->write.descriptor[LENGTH]
write_complete(w) ==
    w.index >= PSTREAM_DESCRIPTOR_SIZE + w.descriptor[PSTREAM_DESCRIPTOR_LENGTH]

\* a do_write that calls the send callback for every item it finishes
send_callback_per_item(callback, q) == callback

\* p->send_callback && queue_is_empty(p->send_queue)
send_callback_due(callback, q) == callback /\ queue_is_empty(q)

\* do_write from line 261 on: the current item is complete
write_finish(W, ub, cb) ==
    LET F == item_free(W, W.p.write.current[1], ub) IN
    IF F.status # "live" THEN F
    ELSE LET W1 == [F EXCEPT !.p.write.current = << >>, !.obs.completed = @ + 1] IN
         IF send_callback_due(W1.p.send_callback, W1.p.send_queue)
         THEN user_callback([W1 EXCEPT !.obs.send_callbacks = @ + 1], cb)
         ELSE W1

\* do_write from line 243 on: there is a current item
write_current(W, cap, g, ub, cb) ==
    LET w == W.p.write
        l == write_span(w)
        r == iochannel_write(cap, l)
        bytes == IF r < 0 THEN << >> ELSE write_bytes(w, r, g)
        W1 == [W EXCEPT !.obs.last = DidIo("write", r),
                        !.io.log = MockLog(W.io, "write", l, r, bytes)]
    IN IF write_failed(r) THEN [W1 EXCEPT !.p.dead = TRUE]
       ELSE LET W2 == [W1 EXCEPT !.p.write.index = @ + r,
                                 !.io.in = Loopback(W.io, bytes),
                                 !.obs.emitted[ItemId(w.current[1])] =
                                     Min(w.index + r, FrameSize(w.current[1]))]
            IN IF write_complete(W2.p.write) THEN write_finish(W2, ub, cb) ELSE W2

\* do_write.  writable: iochannel_is_writable; cap: what the channel does with
\* the write; g: the byte an out-of-bounds read yields; ub: the outcome of
\* item_free's undefined read; cb: whether the user's send callback sends
do_write(W, writable, cap, g, ub, cb) ==
    LET W0 == [W EXCEPT !.source_enabled = FALSE, !.obs.last = NoIo("write")] IN
    IF engine_blocked(W.p.dead, writable) THEN W0
    ELSE LET N == IF wants_next_item(W.p.write)
                  THEN prepare_next_write_item(W.p.write, W.p.send_queue)
                  ELSE [write |-> W.p.write, queue |-> W.p.send_queue]
             W1 == [W0 EXCEPT !.p.write = N.write, !.p.send_queue = N.queue]
         IN IF N.write.current = << >> THEN W1
            ELSE write_current(W1, cap, g, ub, cb)

\* ------------------------------------------------------------ read engine

\* a do_read that asks for a whole descriptor wherever in the descriptor it is
read_span_whole_descriptor(rd) ==
    IF rd.index < PSTREAM_DESCRIPTOR_SIZE
    THEN PSTREAM_DESCRIPTOR_SIZE
    ELSE SizeT(DescriptorWord(rd.descriptor, PSTREAM_DESCRIPTOR_LENGTH)
                 - rd.index - PSTREAM_DESCRIPTOR_SIZE)

\* l of do_read: the most bytes the channel is asked for
read_span(rd) ==
    IF rd.index < PSTREAM_DESCRIPTOR_SIZE
    THEN PSTREAM_DESCRIPTOR_SIZE - rd.index
    ELSE SizeT(DescriptorWord(rd.descriptor, PSTREAM_DESCRIPTOR_LENGTH)
                 - rd.index - PSTREAM_DESCRIPTOR_SIZE)

\* a do_read that takes end of stream for a short read
read_failed_on_error_only(r) == r < 0

\* (r = iochannel_read(...)) <= 0
read_failed(r) == r <= 0

\* the read cursor after the channel stored bytes at d and index grew by r
read_store(rd, bytes) ==
    IF rd.index < PSTREAM_DESCRIPTOR_SIZE
    THEN [rd EXCEPT !.index = @ + Len(bytes),
                    !.descriptor =
                        [k \in 1 .. PSTREAM_DESCRIPTOR_SIZE |->
                            IF rd.index < k /\ k <= rd.index + Len(bytes)
                            THEN bytes[k - rd.index] ELSE @[k]]]
    ELSE [rd EXCEPT !.index = @ + Len(bytes),
                    !.data.bytes = Take(@, rd.index - PSTREAM_DESCRIPTOR_SIZE) \o bytes]

\* whether the bytes stored run past the end of the buffer p->read.data points to
read_overflows(rd) ==
    rd.index > PSTREAM_DESCRIPTOR_SIZE /\ Len(rd.data.bytes) > rd.data.ref.length

\* a do_read that refuses a frame of FRAME_SIZE_MAX bytes too
frame_too_large_at_limit(length) == U32Greater(length, FRAME_SIZE_MAX - 1)

\* p->read.descriptor[LENGTH] > FRAME_SIZE_MAX
frame_too_large(length) == U32Greater(length, FRAME_SIZE_MAX)

\* p->read.index >= p->read.descriptor[LENGTH] + PSTREAM_DESCRIPTOR_SIZE
read_complete(rd) ==
    rd.index >= DescriptorWord(rd.descriptor, PSTREAM_DESCRIPTOR_LENGTH) + PSTREAM_DESCRIPTOR_SIZE

\* what a receive callback is handed, as the harness records it
Delivery(kind, channel, delta, buffer, index, length, data) ==
    [kind |-> kind, channel |-> channel, delta |-> delta, buffer |-> buffer,
     index |-> index, length |-> length, data |-> data]

\* do_read, lines 297-318: the descriptor is complete
read_descriptor(W) ==
    LET rd == W.p.read
        length == DescriptorWord(rd.descriptor, PSTREAM_DESCRIPTOR_LENGTH)
        id == 0 - (W.obs.allocs + 1)
    IN IF frame_too_large(length) THEN [W EXCEPT !.p.dead = TRUE]
       ELSE IF DescriptorWord(rd.descriptor, PSTREAM_DESCRIPTOR_CHANNEL) = 0
       THEN [W EXCEPT !.p.read.packet = << Ref("packet", id, length) >>,
                      !.p.read.data = [ref |-> Ref("packet", id, length), bytes |-> << >>],
                      !.obs.allocs = @ + 1]
       ELSE [W EXCEPT !.p.read.memblock = << Ref("memblock", id, length) >>,
                      !.p.read.data = [ref |-> Ref("memblock", id, length), bytes |-> << >>],
                      !.obs.allocs = @ + 1]

\* l of lines 324-326: how many of this read's bytes are payload
chunk_length(index, r) ==
    IF index - r < PSTREAM_DESCRIPTOR_SIZE THEN index - PSTREAM_DESCRIPTOR_SIZE ELSE r

\* the record of deliveries after one more: a chunk that continues the chunk
\* before it, in the same memblock, is recorded as one longer chunk
Observe(log, d) ==
    LET n == Len(log) IN
    IF n > 0 /\ d.kind = "memblock" /\ log[n].buffer = d.buffer
             /\ log[n].index + log[n].length = d.index
    THEN [log EXCEPT ![n].length = @ + d.length, ![n].data = @ \o d.data]
    ELSE Append(log, d)

\* do_read, lines 323-337: pass memblock data to the user
read_deliver_memblock(W, r, cb) ==
    LET rd == W.p.read
        l == chunk_length(rd.index, r)
        chunk == Chunk(rd.memblock[1], rd.index - PSTREAM_DESCRIPTOR_SIZE - l, l)
    IN IF rd.memblock # << >> /\ W.p.recieve_memblock_callback /\ l > 0
       THEN user_callback(
              [W EXCEPT !.obs.recieved = Observe(@,
                  Delivery("memblock",
                           DescriptorWord(rd.descriptor, PSTREAM_DESCRIPTOR_CHANNEL),
                           DescriptorWord(rd.descriptor, PSTREAM_DESCRIPTOR_DELTA),
                           chunk.memblock, chunk.index, chunk.length,
                           SubSeq(rd.data.bytes, chunk.index + 1, chunk.index + chunk.length)))],
              cb)
       ELSE W

\* a do_read that resets the index of a complete frame and leaves its buffer
\* in the cursor
read_finish_keeps_buffer(W, cb) == [W EXCEPT !.p.read.index = 0]

\* do_read, lines 340-357: the frame is complete.  p->read.data is left
\* dangling; nothing reads it before the next descriptor sets it again.
read_finish(W, cb) ==
    LET rd == W.p.read IN
    IF rd.memblock # << >>
    THEN [W EXCEPT !.obs.unrefs = Append(@, rd.memblock[1]),
                   !.p.read.memblock = << >>,
                   !.p.read.data = [ref |-> UNINIT, bytes |-> << >>],
                   !.p.read.index = 0]
    ELSE LET W1 == IF W.p.recieve_packet_callback
                   THEN user_callback(
                          [W EXCEPT !.obs.recieved = Append(@,
                              Delivery("packet", 0, 0, rd.packet[1], 0, rd.packet[1].length,
                                       Take(rd.data.bytes, rd.packet[1].length)))],
                          cb)
                   ELSE W
         IN [W1 EXCEPT !.obs.unrefs = Append(@, rd.packet[1]),
                       !.p.read.packet = << >>,
                       !.p.read.data = [ref |-> UNINIT, bytes |-> << >>],
                       !.p.read.index = 0]

\* do_read.  readable: iochannel_is_readable; n: what the channel does with
\* the read; ub: the outcome of storing past the end of the buffer; cb:
\* whether the user's receive callback sends
do_read(W, readable, n, ub, cb) ==
    LET W0 == [W EXCEPT !.source_enabled = FALSE, !.obs.last = NoIo("read")] IN
    IF engine_blocked(W.p.dead, readable) THEN W0
    ELSE LET l == read_span(W.p.read)
             r == iochannel_read(n, l, Len(W.io.in))
             W1 == [W0 EXCEPT !.obs.last = DidIo("read", r),
                              !.io.log = MockLog(W.io, "read", l, r, Take(W.io.in, r))]
         IN IF read_failed(r) THEN [W1 EXCEPT !.p.dead = TRUE]
            ELSE LET W2 == [W1 EXCEPT !.p.read = read_store(@, Take(W.io.in, r)),
                                      !.io.in = Drop(@, r)]
                 IN IF read_overflows(W2.p.read) /\ ub = "abort"
                    THEN [W2 EXCEPT !.status = "aborted"]
                    ELSE IF W2.p.read.index = PSTREAM_DESCRIPTOR_SIZE THEN read_descriptor(W2)
                    ELSE IF W2.p.read.index > PSTREAM_DESCRIPTOR_SIZE
                    THEN LET W3 == read_deliver_memblock(W2, r, cb) IN
                         IF read_complete(W3.p.read) THEN read_finish(W3, cb) ELSE W3
                    ELSE W2

\* ------------------------------------------------------------ pstream_free

\* pstream_free; the struct and the channel are gone afterwards
pstream_free(W, ub) ==
    LET Q == item_free_all(W, W.p.send_queue, ub)
        C == item_free_all(Q, W.p.write.current, ub)
        M == [C EXCEPT !.obs.unrefs = @ \o W.p.read.memblock]
        K == [M EXCEPT !.obs.unrefs = @ \o W.p.read.packet]
    IN IF C.status # "live" THEN C
       ELSE [K EXCEPT !.status = "freed", !.p = NoStream, !.io = NoChannel(W.io),
                      !.source_enabled = FALSE]

\* ------------------------------------------------------------ the peer

\* the bytes of one frame as a peer's write engine puts them on the wire
WireFrame(length, channel, delta, payload) ==
    DescriptorBytes([k \in 0 .. PSTREAM_DESCRIPTOR_MAX - 1 |->
                        IF k = PSTREAM_DESCRIPTOR_LENGTH THEN length
                        ELSE IF k = PSTREAM_DESCRIPTOR_CHANNEL THEN channel ELSE delta])
        \o payload

\* what the peer writes: two packet frames and a memblock frame
PeerFrames ==
    { WireFrame(0, 0, 0, << >>),
      WireFrame(2, 0, 0, << 7, 8 >>),
      WireFrame(3, 3, -5, << 9, 10, 11 >>) }

\* what the peer writes last, the stream having no way to finish it: a frame
\* of the largest length allowed (its payload only begun), one just above it
\* and one whose length has the top bit set
PeerLastFrames ==
    { WireFrame(FRAME_SIZE_MAX, 0, 0, << 12, 13 >>),
      WireFrame(FRAME_SIZE_MAX + 1, 0, 0, << >>),
      WireFrame(0 - 4, 5, 0, << >>) }

\* ------------------------------------------------------------ actions

\* the state after a C function returned the world W
Becomes(W) ==
    /\ p' = W.p
    /\ source_enabled' = W.source_enabled
    /\ io' = W.io
    /\ status' = W.status
    /\ obs' = W.obs

Idle == status = "live" /\ pc = "idle"

\* the client registers its callbacks before there is any traffic
Fresh == Idle /\ obs.sent = << >> /\ obs.peer_frames = 0 /\ obs.last.engine = "none"

UbOutcomes == {"abort", "wild"}

set_send_callback ==
    /\ Fresh
    /\ ~p.send_callback
    /\ p' = [p EXCEPT !.send_callback = TRUE]
    /\ UNCHANGED << source_enabled, io, status, pc, calls, obs >>

set_recieve_packet_callback ==
    /\ Fresh
    /\ ~p.recieve_packet_callback
    /\ p' = [p EXCEPT !.recieve_packet_callback = TRUE]
    /\ UNCHANGED << source_enabled, io, status, pc, calls, obs >>

set_recieve_memblock_callback ==
    /\ Fresh
    /\ ~p.recieve_memblock_callback
    /\ p' = [p EXCEPT !.recieve_memblock_callback = TRUE]
    /\ UNCHANGED << source_enabled, io, status, pc, calls, obs >>

send_packet(length) ==
    /\ Idle
    /\ Room(World)
    /\ Becomes(pstream_send_packet(World, NewPacket(World, length)))
    /\ UNCHANGED << pc, calls >>

\* t = (channel, delta, chunk.index, chunk.length, memblock length)
send_memblock(t) ==
    /\ Idle
    /\ Room(World)
    /\ Becomes(pstream_send_memblock(World, t[1], t[2], Chunk(NewMemblock(World, t[5]), t[3], t[4])))
    /\ UNCHANGED << pc, calls >>

\* the driver of a test around a mock channel counts the wake-ups it makes
Counted == IF io.kind = "mock" THEN calls + 1 ELSE calls

\* io_callback up to the return of do_write
io_callback(writable, cap, g, ub, cb) ==
    /\ Idle
    /\ Becomes(do_write(World, writable, cap, g, ub, cb))
    /\ pc' = "do_read"
    /\ calls' = Counted

\* prepare_callback up to the return of do_write; the main loop calls it
\* while the source is enabled
prepare_callback(writable, cap, g, ub, cb) ==
    /\ Idle
    /\ source_enabled
    /\ Becomes(do_write(World, writable, cap, g, ub, cb))
    /\ pc' = "do_read"
    /\ calls' = Counted

\* a wake-up that calls do_read a second time before it returns
callback_do_read_twice(readable, n, ub, cb) ==
    /\ status = "live"
    /\ pc = "do_read"
    /\ Becomes(do_read(do_read(World, readable, n, ub, cb), readable, n, ub, cb))
    /\ pc' = "idle"
    /\ UNCHANGED calls

\* the rest of io_callback / prepare_callback: do_read, and return
callback_do_read(readable, n, ub, cb) ==
    /\ status = "live"
    /\ pc = "do_read"
    /\ Becomes(do_read(World, readable, n, ub, cb))
    /\ pc' = "idle"
    /\ UNCHANGED calls

free(ub) ==
    /\ Idle
    /\ Becomes(pstream_free(World, ub))
    /\ UNCHANGED << pc, calls >>

\* the peer writes one frame
peer_write(frame) ==
    /\ status = "live"
    /\ Room(World)
    /\ io' = [io EXCEPT !.in = @ \o frame]
    /\ obs' = [obs EXCEPT !.peer_frames = IF frame \in PeerFrames THEN @ + 1 ELSE MaxFrames]
    /\ UNCHANGED << p, source_enabled, status, pc, calls >>

\* items enqueued and not yet finished
Outstanding(stream) == Len(stream.send_queue) + Len(stream.write.current)

\* The inputs of a wake-up, left out where the engine cannot read them: the
\* channel's answer and item_free's outcome while the stream is dead or has
\* nothing to write, the garbage byte while the write cursor is in the
\* descriptor or the bytes go where nobody looks at them, the user
\* callback's choice while no callback is registered, the outcome of an
\* overflow while the read cursor is in the descriptor.
WriteResults(caps) == IF p.dead \/ Outstanding(p) = 0 THEN {0} ELSE caps

ReadResults(ns) == IF p.dead THEN {0} ELSE ns

FreeChoices == IF p.dead \/ Outstanding(p) = 0 THEN {"wild"} ELSE UbOutcomes

GarbageChoices ==
    IF ~p.dead /\ io.kind # "socket"
       /\ p.write.current # << >> /\ p.write.index >= PSTREAM_DESCRIPTOR_SIZE
    THEN GarbageBytes ELSE {0}

SendCallbackChoices ==
    IF ~p.dead /\ p.send_callback /\ Outstanding(p) > 0 THEN BOOLEAN ELSE {FALSE}

RecieveCallbackChoices ==
    IF ~p.dead /\ (p.recieve_packet_callback \/ p.recieve_memblock_callback)
    THEN BOOLEAN ELSE {FALSE}

OverflowChoices ==
    IF ~p.dead /\ p.read.index >= PSTREAM_DESCRIPTOR_SIZE THEN UbOutcomes ELSE {"wild"}

\* what a socket does with one call: an error, nothing (end of stream on a
\* read), or 1, 2 or up to MaxChunk bytes
SocketResults == {-1, 0, 1, 2, MaxChunk}

\* what the loopback channel does with one call
PipeResults == {-1, 1, MaxChunk}

WriteWakes(A(_, _, _, _, _), caps) ==
    \/ A(FALSE, 0, 0, "wild", FALSE)
    \/ \E cap \in WriteResults(caps), g \in GarbageChoices, ub \in FreeChoices,
          cb \in SendCallbackChoices : A(TRUE, cap, g, ub, cb)

ReadReturns(ns) ==
    \/ callback_do_read(FALSE, 0, "wild", FALSE)
    \/ \E n \in ReadResults(ns), ub \in OverflowChoices, cb \in RecieveCallbackChoices :
          callback_do_read(TRUE, n, ub, cb)

\* the client sends, the peer sends nothing (it may close the connection)
Next ==
    \/ set_send_callback
    \/ \E length \in PacketLengths : send_packet(length)
    \/ \E t \in MemblockSends : send_memblock(t)
    \/ WriteWakes(io_callback, SocketResults)
    \/ WriteWakes(prepare_callback, SocketResults)
    \/ ReadReturns(SocketResults)
    \/ \E ub \in UbOutcomes : free(ub)

Spec == Init /\ [][Next]_vars

\* the peer sends, the client sends only from its receive callbacks
NextRecv ==
    \/ set_recieve_packet_callback
    \/ set_recieve_memblock_callback
    \/ \E frame \in PeerFrames \cup PeerLastFrames : peer_write(frame)
    \/ WriteWakes(io_callback, SocketResults)
    \/ WriteWakes(prepare_callback, SocketResults)
    \/ ReadReturns(SocketResults)
    \/ \E ub \in UbOutcomes : free(ub)

SpecRecv == Init /\ [][NextRecv]_vars

\* the stream on a loopback channel: it reads the frames it sent
InitPipe ==
    /\ p = NewStream
    /\ source_enabled = FALSE
    /\ io = NewChannel("loopback")
    /\ status = "live"
    /\ pc = "idle"
    /\ calls = 0
    /\ obs = NewObs

NextPipe ==
    \/ set_recieve_packet_callback
    \/ set_recieve_memblock_callback
    \/ \E length \in PipePacketLengths : send_packet(length)
    \/ \E t \in PipeMemblockSends : send_memblock(t)
    \/ WriteWakes(io_callback, PipeResults)
    \/ WriteWakes(prepare_callback, PipeResults)
    \/ ReadReturns(PipeResults)

SpecPipe == InitPipe /\ [][NextPipe]_vars

\* The scenario of the test plan: a packet of 12 bytes, then a memblock of 8
\* bytes on channel 2 with delta -5, written through a mock channel that
\* takes 5 bytes a call and has nothing to read.
Scenario == [packet |-> 12, chunk |-> 8, channel |-> 2, delta |-> 0 - 5, accepts |-> 5]
\* where in its memblock the chunk starts: the plan leaves it open
ScenarioChunkIndexes == {0, 1}

InitScenario ==
    /\ p = NewStream
    /\ source_enabled = FALSE
    /\ io = NewChannel("mock")
    /\ status = "live"
    /\ pc = "idle"
    /\ calls = 0
    /\ obs = NewObs

NextScenario ==
    \/ set_send_callback
    \/ /\ p.send_callback
       /\ obs.sent = << >>
       /\ send_packet(Scenario.packet)
    \/ /\ Len(obs.sent) = 1
       /\ \E at \in ScenarioChunkIndexes :
             send_memblock(<< Scenario.channel, Scenario.delta, at, Scenario.chunk,
                              at + Scenario.chunk + at >>)
    \/ /\ Len(obs.sent) = 2
       /\ calls < MaxCalls
       /\ \E g \in GarbageChoices, ub \in UbOutcomes :
             io_callback(TRUE, Scenario.accepts, g, ub, FALSE)
    \/ callback_do_read(FALSE, 0, "wild", FALSE)
    \/ \E ub \in UbOutcomes : free(ub)

SpecScenario == InitScenario /\ [][NextScenario]_vars

\* ------------------------------------------------------------ properties

\* a step in which do_write ran (and returned, or ended the process)
WriteEngineStep == pc = "idle" /\ pc' = "do_read"

\* a step in which do_read ran
ReadEngineStep == pc = "do_read" /\ pc' = "idle"

\* how many times x occurs in the sequence s
Occurrences(s, x) == Cardinality({k \in 1 .. Len(s) : s[k] = x})

\* whether s is a prefix of t
IsPrefix(s, t) == Len(s) <= Len(t) /\ s = SubSeq(t, 1, Len(s))

\* ---- C1

\* the frame an item stands for: its descriptor words and payload bytes
TxFrame(i) ==
    [ length |-> ItemLength(i),
      channel |-> IF i.type = "PSTREAM_ITEM_PACKET" THEN 0 ELSE i.channel,
      delta |-> IF i.type = "PSTREAM_ITEM_PACKET" THEN 0 ELSE i.delta,
      payload |-> BufferBytes(ItemPayload(i),
                              IF i.type = "PSTREAM_ITEM_PACKET" THEN 0 ELSE i.chunk.index,
                              ItemLength(i), 0) ]

\* the frames the receive callbacks have shown: a packet is a frame, the
\* chunks of one memblock are a frame
RECURSIVE RxFrames(_)
RxFrames(log) ==
    IF log = << >> THEN << >>
    ELSE LET d == log[Len(log)]
             before == RxFrames(SubSeq(log, 1, Len(log) - 1))
             n == Len(before)
         IN IF d.kind = "memblock" /\ n > 0 /\ before[n].buffer = d.buffer
            THEN [before EXCEPT ![n].payload = @ \o d.data, ![n].length = @ + d.length]
            ELSE Append(before, [ buffer |-> d.buffer, channel |-> d.channel,
                                  delta |-> d.delta, length |-> d.length,
                                  payload |-> d.data ])

\* frame k as received agrees with frame k as sent; the last one received may
\* still be growing if it is a memblock frame
RxAgrees(rx, k) ==
    /\ k <= Len(obs.sent)
    /\ LET tx == TxFrame(obs.sent[k]) IN
       /\ rx[k].channel = tx.channel
       /\ rx[k].delta = tx.delta
       /\ IF k = Len(rx) /\ tx.channel # 0
          THEN IsPrefix(rx[k].payload, tx.payload)
          ELSE rx[k].length = tx.length /\ rx[k].payload = tx.payload

\* C1: on a loopback channel that splits reads and writes at will, with both
\* receive callbacks registered, the frames received are the frames sent, in
\* the order sent, with the same length, channel, delta and payload.
FramingRoundTrip ==
    (status = "live" /\ p.recieve_packet_callback /\ p.recieve_memblock_callback) =>
        LET rx == RxFrames(obs.recieved) IN \A k \in 1 .. Len(rx) : RxAgrees(rx, k)

\* ---- C2

\* C2: no byte of an item goes to the channel before the last byte of every
\* item enqueued before it has gone.
FifoPreservation ==
    \A i, j \in 1 .. Len(obs.sent) :
        (i < j /\ obs.emitted[j] > 0) => obs.emitted[i] = FrameSize(obs.sent[i])

\* the second item is under way (so the first went out whole before it)
FifoWitness ==
    /\ Len(obs.sent) >= 2
    /\ obs.emitted[1] = FrameSize(obs.sent[1])
    /\ obs.emitted[2] > 0
    /\ obs.emitted[2] < FrameSize(obs.sent[2])

\* ---- C3

\* the chunks of memblock b handed to the receive-memblock callback
ChunksOf(b) == SelectSeq(obs.recieved, LAMBDA d : d.kind = "memblock" /\ d.buffer = b)

\* the chunks in cs tile 0 .. n-1 from the start, without gap or overlap
RECURSIVE Contiguous(_, _)
Contiguous(cs, n) ==
    IF cs = << >> THEN n = 0
    ELSE LET c == cs[Len(cs)] IN
         /\ c.length > 0
         /\ c.index + c.length = n
         /\ Contiguous(SubSeq(cs, 1, Len(cs) - 1), c.index)

\* the memblocks do_read allocated and released on completing their frame
CompletedMemblocks ==
    {obs.unrefs[k] : k \in {n \in 1 .. Len(obs.unrefs) : obs.unrefs[n].kind = "memblock"}}

\* the bytes of memblock b delivered so far
Delivered(b) ==
    LET cs == ChunksOf(b) IN IF cs = << >> THEN 0 ELSE cs[Len(cs)].index + cs[Len(cs)].length

\* C3: with the receive-memblock callback registered, the chunks delivered
\* for a memblock frame of length L start at 0, are contiguous, stay within
\* the L payload bytes, and cover all L once the frame is complete.
IncrementalDelivery ==
    (status = "live" /\ p.recieve_memblock_callback) =>
        /\ \A k \in 1 .. Len(obs.recieved) :
              LET b == obs.recieved[k].buffer IN
              b.kind = "memblock" =>
                  /\ Contiguous(ChunksOf(b), Delivered(b))
                  /\ Delivered(b) <= b.length
        /\ \A b \in CompletedMemblocks : Delivered(b) = b.length

\* ---- C4

\* C4: packet_unref / memblock_unref is only ever applied to the reference
\* an item or the read cursor owns, at most once each, and exactly once for
\* every item finished and, once the stream is freed, for every item sent.
ReferenceHygiene ==
    /\ \A k \in 1 .. Len(obs.unrefs) : obs.unrefs[k].kind # "uninit"
    /\ \A k \in 1 .. Len(obs.sent) :
          Occurrences(obs.unrefs, ItemPayload(obs.sent[k])) =
              IF k <= obs.completed \/ status = "freed" THEN 1 ELSE 0

\* ---- C5

\* the step finishes the only outstanding item while a send callback is registered
Drains ==
    /\ WriteEngineStep
    /\ p.send_callback
    /\ Outstanding(p) = 1
    /\ obs'.completed = obs.completed + 1

\* C5: the send callback is invoked once in the step that finishes the last
\* outstanding item, and in no other step: not when an item finishes and
\* more are queued, not while work remains.
DrainNotification ==
    [][obs'.send_callbacks = obs.send_callbacks + (IF Drains THEN 1 ELSE 0)]_vars

\* two items finished and one callback: the first finished with the second queued
DrainWitness == p.send_callback /\ obs.completed = 2 /\ obs.send_callbacks = 1

\* ---- C6

\* C6: in the scenario, once the write engine has run 9 times both items
\* are sent whole, in order, and the send callback has fired once, and it
\* fires only when the second item is finished.
ScenarioNineCalls ==
    /\ obs.send_callbacks = (IF obs.completed = 2 THEN 1 ELSE 0)
    /\ calls >= 9 =>
          /\ obs.completed = 2
          /\ p.write.current = << >> /\ p.send_queue = << >>
          /\ \A k \in 1 .. 2 : obs.emitted[k] = FrameSize(obs.sent[k])

\* ---- C7

\* the step in which do_read stores the last byte of a descriptor
HeaderCompletes ==
    /\ ReadEngineStep
    /\ obs'.last.called /\ obs'.last.sign > 0
    /\ p.read.index < PSTREAM_DESCRIPTOR_SIZE
    /\ p'.read.index = PSTREAM_DESCRIPTOR_SIZE

\* C7: a descriptor whose length is above 65536 kills the stream, with no
\* buffer allocated and no receive callback invoked; one of 65536 or less is
\* accepted and gets exactly one buffer of that length.
OversizedFrameRejection ==
    [][HeaderCompletes =>
        LET length == DescriptorWord(p'.read.descriptor, PSTREAM_DESCRIPTOR_LENGTH) IN
        IF U32Greater(length, 1024 * 64)
        THEN /\ p'.dead
             /\ p'.read.packet = << >> /\ p'.read.memblock = << >>
             /\ obs'.allocs = obs.allocs
             /\ obs'.recieved = obs.recieved
        ELSE /\ ~p'.dead
             /\ obs'.allocs = obs.allocs + 1
             /\ Len(p'.read.packet) + Len(p'.read.memblock) = 1
             /\ (p'.read.packet \o p'.read.memblock)[1].length = length]_vars

\* the stream died on a descriptor of length 65537, having allocated nothing
OversizedWitness ==
    /\ p.dead
    /\ p.read.index = PSTREAM_DESCRIPTOR_SIZE
    /\ DescriptorWord(p.read.descriptor, PSTREAM_DESCRIPTOR_LENGTH) = 1024 * 64 + 1
    /\ obs.allocs = 0
    /\ obs.recieved = << >>

\* ---- C8

\* C8: when the channel write returns less than 0, or the channel read 0 or
\* less, the stream is dead when the engine returns, the cursor is where it
\* was, and nothing was finished, released or delivered.
FatalIoError ==
    [][/\ (WriteEngineStep /\ obs'.last.called /\ obs'.last.sign < 0) =>
            /\ status' = "live" /\ p'.dead
            /\ p'.write.current # << >>
            /\ p'.write.index = (IF p.write.current = << >> THEN 0 ELSE p.write.index)
            /\ obs'.completed = obs.completed
            /\ obs'.send_callbacks = obs.send_callbacks
            /\ obs'.recieved = obs.recieved
            /\ obs'.unrefs = obs.unrefs
       /\ (ReadEngineStep /\ obs'.last.called /\ obs'.last.sign <= 0) =>
            /\ status' = "live" /\ p'.dead
            /\ p'.read = p.read
            /\ io'.in = io.in
            /\ obs'.allocs = obs.allocs
            /\ obs'.send_callbacks = obs.send_callbacks
            /\ obs'.recieved = obs.recieved
            /\ obs'.unrefs = obs.unrefs]_vars

\* a write failed in the middle of a frame
FatalIoWitness ==
    /\ p.dead
    /\ obs.last.engine = "write" /\ obs.last.called /\ obs.last.sign < 0
    /\ p.write.current # << >>
    /\ p.write.index > 0

\* ---- C9

\* C9: dead is never cleared while the stream exists, and on a dead stream
\* an invocation of either engine calls the channel for nothing and leaves
\* the queue, both cursors and the callbacks' records as they were.
DeadIsTerminal ==
    [][(status = "live" /\ p.dead) =>
        /\ status' = "live" => p'.dead
        /\ (WriteEngineStep \/ ReadEngineStep) =>
              /\ ~obs'.last.called
              /\ io' = io
              /\ p'.send_queue = p.send_queue
              /\ p'.write = p.write
              /\ p'.read = p.read
              /\ obs'.send_callbacks = obs.send_callbacks
              /\ obs'.recieved = obs.recieved
              /\ obs'.completed = obs.completed]_vars

\* the write engine ran on a dead stream with work outstanding
DeadWitness ==
    /\ p.dead
    /\ pc = "do_read"
    /\ obs.last.engine = "write" /\ ~obs.last.called
    /\ p.send_queue # << >>
    /\ p.write.current # << >>

\* ---- C10

\* C10: a send on a dead stream adds no item to the queue.
DeadDropsSends ==
    [][(status = "live" /\ p.dead /\ Len(obs'.sent) > Len(obs.sent)) =>
          p'.send_queue = p.send_queue]_vars

\* ---- C11

\* the deliveries the receive-packet callback got
PacketDeliveries == SelectSeq(obs.recieved, LAMBDA d : d.kind = "packet")

\* the packets do_read allocated and released
ReadPackets ==
    {obs.unrefs[k] : k \in {n \in 1 .. Len(obs.unrefs) :
                               obs.unrefs[n].kind = "packet" /\ obs.unrefs[n].id < 0}}

\* C11: with the receive-packet callback registered, a packet frame is handed
\* over once, whole, in the invocation in which the read offset reaches
\* header_size + length (so no complete packet frame is left waiting in the
\* cursor), and the callback never gets a memblock frame.
DeliveryAsymmetry ==
    (status = "live" /\ p.recieve_packet_callback) =>
        /\ \A k \in 1 .. Len(PacketDeliveries) :
              LET d == PacketDeliveries[k] IN
              /\ d.buffer.kind = "packet"
              /\ Len(d.data) = d.buffer.length
              /\ \A j \in 1 .. Len(PacketDeliveries) : PacketDeliveries[j].buffer = d.buffer => j = k
        /\ \A b \in ReadPackets : \E k \in 1 .. Len(PacketDeliveries) : PacketDeliveries[k].buffer = b
        /\ p.read.packet # << >> =>
              p.read.index < PSTREAM_DESCRIPTOR_SIZE + p.read.packet[1].length

\* ---- C12

\* C12: a send arms the main-loop source, also when it is made by a callback
\* inside a wake-up, and the source stays armed until do_write next runs.
HookStaysArmed ==
    [][status' = "live" =>
        /\ Len(obs'.sent) > Len(obs.sent) => source_enabled'
        /\ (source_enabled /\ ~WriteEngineStep) => source_enabled']_vars

\* ---- C13

\* what a channel that stays writable does with a write: it takes at least
\* one byte of a span that has one
ProgressResults == 1 .. MaxChunk

\* a wake-up on a writable channel, up to the return of do_write
ProgressWake ==
    \E cap \in ProgressResults, g \in GarbageChoices, ub \in FreeChoices :
        io_callback(TRUE, cap, g, ub, FALSE)

\* the rest of the wake-up: do_read with nothing to read
ProgressRead == callback_do_read(FALSE, 0, "wild", FALSE)

\* the client sends, the channel stays writable and the wake-ups keep coming
NextProgress ==
    \/ \E length \in PacketLengths : send_packet(length)
    \/ \E t \in MemblockSends : send_memblock(t)
    \/ ProgressWake
    \/ ProgressRead

SpecProgress ==
    Init /\ [][NextProgress]_vars /\ WF_vars(ProgressWake) /\ WF_vars(ProgressRead)

\* C13: on a channel that stays writable and takes at least one byte of
\* every non-empty span, with do_write invoked again and again, outbound work
\* is finished: every item is released and the current item cleared (unless
\* the stream dies or the process ends).
WriteProgress ==
    (status = "live" /\ Outstanding(p) > 0) ~>
        (status # "live" \/ p.dead \/ Outstanding(p) = 0)

\* ---- C14

\* the write cursor do_write works on in this step: the one it found, or
\* the start of the item it takes off the queue
OfferedAt == IF p.write.current = << >> THEN 0 ELSE p.write.index

\* the payload length of the item do_write works on in this step
OfferedLength ==
    IF p.write.current = << >> THEN ItemLength(Head(p.send_queue))
    ELSE p.write.descriptor[PSTREAM_DESCRIPTOR_LENGTH]

\* C14: the span do_write offers to the channel is the rest of the
\* descriptor while the offset is inside it, and otherwise the rest of the
\* payload, length - (offset - header_size) bytes.
WriteSpanComputation ==
    [][(WriteEngineStep /\ obs'.last.called) =>
          io'.log[Len(io'.log)].l =
              IF OfferedAt < PSTREAM_DESCRIPTOR_SIZE
              THEN PSTREAM_DESCRIPTOR_SIZE - OfferedAt
              ELSE OfferedLength - (OfferedAt - PSTREAM_DESCRIPTOR_SIZE)]_vars

\* ---- C15

\* C15: the write offset of the item do_write works on stays within
\* 0 .. header_size + length of that item, the channel never taking more
\* than the span it is offered.
WriteOffsetBound ==
    [][(WriteEngineStep /\ obs'.last.called /\ obs'.last.sign >= 0) =>
          /\ p'.write.index >= 0
          /\ p'.write.index <= PSTREAM_DESCRIPTOR_SIZE + OfferedLength]_vars

\* ---- C16

\* C16: when do_write has returned on a stream that is not dead, the
\* main-loop source is armed if there is outbound work (an item queued or in
\* progress) and disarmed if there is none.
HookRearming ==
    (status = "live" /\ pc = "do_read" /\ ~p.dead) =>
        (source_enabled <=> Outstanding(p) > 0)

\* ---- C17

\* how many of read.packet and read.memblock are set
ReadBuffers == Len(p.read.packet) + Len(p.read.memblock)

\* the read cursor holds a complete descriptor whose length is above the limit
OversizedHeader ==
    /\ p.read.index = PSTREAM_DESCRIPTOR_SIZE
    /\ U32Greater(DescriptorWord(p.read.descriptor, PSTREAM_DESCRIPTOR_LENGTH), 1024 * 64)

\* C17 as stated: neither buffer is set while the read offset is below
\* header_size, exactly one is set from then on until the frame is complete.
ReadCursorInvariant ==
    status = "live" =>
        ReadBuffers = (IF p.read.index < PSTREAM_DESCRIPTOR_SIZE THEN 0 ELSE 1)

\* C17, amended: the same, except that a stream that died on an oversized
\* descriptor stays at offset header_size with neither buffer set.
ReadCursorInvariantAmended ==
    status = "live" =>
        IF OversizedHeader
        THEN p.dead /\ ReadBuffers = 0
        ELSE ReadBuffers = (IF p.read.index < PSTREAM_DESCRIPTOR_SIZE THEN 0 ELSE 1)

\* the read cursor is inside the payload of a memblock frame
ReadCursorWitness ==
    /\ status = "live"
    /\ p.read.index > PSTREAM_DESCRIPTOR_SIZE
    /\ p.read.memblock # << >> /\ p.read.packet = << >>
    /\ obs.allocs >= 2

\* ---- C18

\* a do_read step whose read brought in the last byte of the descriptor of a
\* packet frame of length 0
EmptyPacketHeaderRead ==
    /\ ReadEngineStep
    /\ status' = "live"
    /\ p.read.index < PSTREAM_DESCRIPTOR_SIZE
    /\ Len(io.in) - Len(io'.in) = PSTREAM_DESCRIPTOR_SIZE - p.read.index
    /\ DescriptorWord(p'.read.descriptor, PSTREAM_DESCRIPTOR_LENGTH) = 0
    /\ DescriptorWord(p'.read.descriptor, PSTREAM_DESCRIPTOR_CHANNEL) = 0

\* C18: a packet frame of length 0 is complete when its descriptor is: the
\* read that completes the descriptor hands the empty packet to the receive
\* callback once, releases the buffer and resets the read offset to 0, so the
\* bytes that follow on the channel start the next descriptor.
ZeroLengthFrames ==
    [][EmptyPacketHeaderRead =>
          /\ p'.read.index = 0
          /\ p'.read.packet = << >>
          /\ p.recieve_packet_callback =>
                /\ Len(obs'.recieved) = Len(obs.recieved) + 1
                /\ obs'.recieved[Len(obs'.recieved)].kind = "packet"
                /\ obs'.recieved[Len(obs'.recieved)].data = << >>]_vars

\* ---- C19

\* a mock channel takes or gives up to this many bytes per call
MockResults == {MaxChunk}

\* the stream between a client that sends and a peer that writes, on a mock
\* channel that is readable while it holds bytes; the driver makes a bounded
\* number of wake-ups
MockWake ==
    /\ calls < MaxCalls
    /\ \E cap \in WriteResults(MockResults), g \in GarbageChoices, ub \in FreeChoices :
          \/ io_callback(TRUE, cap, g, ub, FALSE)
          \/ prepare_callback(TRUE, cap, g, ub, FALSE)

MockRead ==
    \E n \in ReadResults(MockResults), ub \in OverflowChoices :
        callback_do_read(io.in # << >>, n, ub, FALSE)

NextMock ==
    \/ \E length \in PacketLengths : send_packet(length)
    \/ \E t \in MemblockSends : send_memblock(t)
    \/ \E frame \in PeerFrames : peer_write(frame)
    \/ MockWake
    \/ MockRead

SpecMock == InitScenario /\ [][NextMock]_vars

\* the channel's log grew by nothing, or by one call of the given kind
AtMostOneCall(op) ==
    \/ io'.log = io.log
    \/ /\ Len(io'.log) = Len(io.log) + 1
       /\ IsPrefix(io.log, io'.log)
       /\ io'.log[Len(io'.log)].op = op

\* C19: one invocation of do_write makes at most one iochannel_write and one
\* invocation of do_read at most one iochannel_read, however many bytes the
\* call transferred; a wake-up is one do_write followed by one do_read.
BoundedWork ==
    [][/\ WriteEngineStep => AtMostOneCall("write") /\ obs'.last.engine = "write"
       /\ ReadEngineStep => AtMostOneCall("read") /\ obs'.last.engine = "read"
       /\ calls' # calls => WriteEngineStep
       /\ (pc = "do_read" /\ p' # p) => ReadEngineStep
       /\ ~(WriteEngineStep \/ ReadEngineStep) => io'.log = io.log]_vars

\* a wake-up whose write and whose read each moved a part of what was asked
\* for, and returned
BoundedWorkWitness ==
    /\ status = "live" /\ pc = "idle"
    /\ \E k \in 1 .. Len(io.log) - 1 :
          /\ io.log[k].op = "write" /\ io.log[k].r > 0 /\ io.log[k].r < io.log[k].l
          /\ io.log[k + 1].op = "read" /\ io.log[k + 1].r > 0 /\ io.log[k + 1].r < io.log[k + 1].l

\* ---- C20

\* a do_read step whose iochannel_read returned bytes
ReadStored == ReadEngineStep /\ obs'.last.called /\ obs'.last.sign > 0

\* no read takes the offset from below the descriptor's end to beyond it; a
\* read that starts at or after the descriptor's end does not end on it; the
\* payload is read into a buffer that is there
DecodeNotSkipped ==
    /\ (ReadStored /\ p.read.index < PSTREAM_DESCRIPTOR_SIZE) =>
           p'.read.index <= PSTREAM_DESCRIPTOR_SIZE
    /\ (ReadStored /\ p.read.index >= PSTREAM_DESCRIPTOR_SIZE) =>
           /\ ReadBuffers = 1
           /\ p'.read.index # PSTREAM_DESCRIPTOR_SIZE
           /\ obs'.allocs = obs.allocs
    /\ obs'.allocs # obs.allocs => HeaderCompletes

====
